---- MODULE Spec2Model ----
(***************************************************************************)
(* Model of the academic-records classes of src/SdM.py: study plans,       *)
(* curricular units, courses, exam sittings, students and the staff roles  *)
(* (Coordinadora, Secretaria) that act on them.                            *)
(*                                                                         *)
(* Conventions.                                                            *)
(*  - A unit code "UC<n>S<s>" is the pair <<n, s>>.                        *)
(*  - A UnidadCurricular object is a record with an identity field `id`:   *)
(*    Python compares units by identity (the class defines no __eq__), so  *)
(*    two units with the same code in different plans are different.       *)
(*  - Python's None is the record NoneUC; every attribute access on it is  *)
(*    an AttributeError, which ends the call with the result "Error".  A   *)
(*    call that returns without a value has result "None".                 *)
(*  - The messages a call prints to report a decision are modelled as the  *)
(*    list of their tags, in the order printed.                            *)
(*  - `ultima` records the last call made (its name, its arguments, its    *)
(*    result and its messages) so that properties of one operation can     *)
(*    name its steps.                                                      *)
(*  - Writing a file always succeeds.  The files of the courses are kept   *)
(*    by name: "curso_<codigo>_<año>_sem<semestre>.csv" is the triple      *)
(*    <<codigo, año, semestre>>.                                           *)
(*  - A unit code that does not end in "S<digits>" has SinSufijo as its    *)
(*    second component.                                                    *)
(***************************************************************************)
EXTENDS Integers, Sequences, FiniteSets, TLC

VARIABLES
    planes,        \* plan name -> PlanDeEstudio.materias (a list of units)
    est,           \* student -> its plan and its lists of units
    cursos,        \* course object -> Curso fields
    examenes,      \* exam object -> InstanciaDeExamen fields
    csv_curso,     \* course file name -> the contents of the file
    csv_examen,    \* exam object -> the file written by the exam sitting
    ultima,        \* the last call: operation, arguments and outcome
    activos        \* the students the session acts on (fixed by Init)

vars == <<planes, est, cursos, examenes, csv_curso, csv_examen, ultima,
          activos>>

----------------------------------------------------------------------------
(* Units and plans *)

NoneUC == [id |-> 0, codigo |-> <<0, 0>>, previas |-> <<>>]

UnidadCurricular(id, codigo, previas) ==
    [id |-> id, codigo |-> codigo, previas |-> previas]

\* Plan "A": UC1S1 without prerequisites, UC1S2 that requires UC1S1.
\* Plan "B": another career's plan, with its own unit coded UC1S1, whose JSON
\* entry lists UC1S2 as a prerequisite; plan "B" holds no UC1S2
\* (_cargar_desde_json copies "previas" without a check).
PlanA ==
    << UnidadCurricular(1, <<1, 1>>, <<>>),
       UnidadCurricular(2, <<1, 2>>, << <<1, 1>> >>) >>

PlanB ==
    << UnidadCurricular(3, <<1, 1>>, << <<1, 2>> >>) >>

NombresDePlan == {"A", "B"}

\* The second component of a code on which re.search(r"S(\d+)$", codigo)
\* finds nothing.
SinSufijo == -1

\* Plan "C": one unit whose code ("ALG") encodes no term.
PlanC ==
    << UnidadCurricular(4, <<3, SinSufijo>>, <<>>) >>

PlanesDeCursos == {"A", "B", "C"}

\* The codes used as inputs; no plan holds UC2S1.
Codigos == {<<1, 1>>, <<1, 2>>, <<2, 1>>}

\* What a call gives back: its result and the messages it printed.
Salida(res, msgs) == [res |-> res, msgs |-> msgs]

\* The record of a call: op is the method's name, e the student, codigo the
\* unit code and obj the course or exam passed ("-" / <<0, 0>> when the
\* method takes none), and what it gave back.
Llamada(op, e, codigo, obj, salida) ==
    [op |-> op, e |-> e, codigo |-> codigo, obj |-> obj,
     res |-> salida.res, msgs |-> salida.msgs]

RECURSIVE BuscarDesde(_, _, _)
BuscarDesde(materias, codigo, i) ==
    IF i > Len(materias) THEN NoneUC
    ELSE IF materias[i].codigo = codigo THEN materias[i]
    ELSE BuscarDesde(materias, codigo, i + 1)

\* The scan that stops one unit before the end of the list.
BuscarSinElUltimo(materias, codigo) ==
    IF materias = <<>> THEN NoneUC
    ELSE BuscarDesde(SubSeq(materias, 1, Len(materias) - 1), codigo, 1)

buscar_uc_por_codigo(materias, codigo) == BuscarDesde(materias, codigo, 1)

----------------------------------------------------------------------------
(* List helpers: Python's `in`, append, remove on lists *)

EnLista(x, lista) == \E i \in DOMAIN lista : lista[i] = x

RECURSIVE QuitarPrimero(_, _)
QuitarPrimero(lista, x) ==
    IF lista = <<>> THEN <<>>
    ELSE IF Head(lista) = x THEN Tail(lista)
    ELSE <<Head(lista)>> \o QuitarPrimero(Tail(lista), x)

\* [u.codigo for u in lista] raises AttributeError when the list holds None.
TieneNone(lista) == EnLista(NoneUC, lista)

CodigosDe(lista) == {lista[i].codigo : i \in DOMAIN lista}

\* `for uc in lista: if uc.codigo == codigo: ...`: the scan stops at the first
\* unit with the code ("match"), raises at the first None before it ("error"),
\* or ends without either ("nomatch").
RecorrerPorCodigo(lista, codigo) ==
    LET paradas == {i \in DOMAIN lista :
                        lista[i] = NoneUC \/ lista[i].codigo = codigo}
    IN IF paradas = {} THEN "nomatch"
       ELSE LET m == CHOOSE i \in paradas : \A j \in paradas : i <= j
            IN IF lista[m] = NoneUC THEN "error" ELSE "match"

----------------------------------------------------------------------------
(* Objects of the model *)

Estudiantes == {"e1", "e2"}
Cursos == {"c1"}
Examenes == {"x1"}

\* Persona fields after __init__ (already stripped and title-cased) and the
\* student's cedula.
Datos ==
    [e \in Estudiantes |->
        IF e = "e1" THEN [nombre |-> "Ana", apellido |-> "Paz", cedula |-> "11"]
        ELSE [nombre |-> "Luz", apellido |-> "Gil", cedula |-> "22"]]

\* The plan each student was constructed with.
PlanDe == [e \in Estudiantes |-> IF e = "e1" THEN "A" ELSE "B"]

nombre_completo(e) == Datos[e].nombre \o " " \o Datos[e].apellido

\* Estudiante.__str__
str_estudiante(e) ==
    Datos[e].nombre \o " " \o Datos[e].apellido \o " " \o Datos[e].cedula

\* ', '.join(partes)
RECURSIVE Join(_)
Join(partes) ==
    IF partes = <<>> THEN ""
    ELSE IF Len(partes) = 1 THEN partes[1]
    ELSE partes[1] \o ", " \o Join(Tail(partes))

\* Inputs tried by the constructors.
Anios == {1999, 2000}
Semestres == {1, 2, 11}

\* The codes tried by the constructor of Curso in the two-course sessions.
CodigosDeCurso == {<<1, 1>>, <<1, 2>>, <<3, SinSufijo>>}

SinArchivo == [existe |-> FALSE, inscritos |-> ""]

\* The names a course file can take.
ArchivosDeCurso == (Codigos \cup CodigosDeCurso) \X Anios \X Semestres

\* Curso.archivo_csv of a course that passed validation.
archivo_csv(c) == <<cursos[c].uc.codigo, cursos[c].anio, cursos[c].semestre>>

CursoSinCrear ==
    [estado |-> "sin_crear", uc |-> NoneUC, anio |-> 0, semestre |-> 0,
     estudiantes |-> <<>>]

ExamenSinCrear == [creado |-> FALSE, codigo_uc |-> <<0, 0>>, estudiantes |-> <<>>]

Init ==
    /\ planes = [p \in NombresDePlan |-> IF p = "A" THEN PlanA ELSE PlanB]
    /\ est = [e \in Estudiantes |->
                [plan |-> PlanDe[e], ucs_aprobadas |-> <<>>, ucs_regulares |-> <<>>,
                 ucs_a_examen |-> <<>>, ucs_cursando |-> <<>>]]
    /\ cursos = [c \in Cursos |-> CursoSinCrear]
    /\ examenes = [x \in Examenes |-> ExamenSinCrear]
    /\ csv_curso = [f \in ArchivosDeCurso |-> SinArchivo]
    /\ csv_examen = [x \in Examenes |-> SinArchivo]
    /\ ultima = Llamada("inicio", "-", <<0, 0>>, "-", Salida("None", <<>>))
    /\ activos \in {{e} : e \in Estudiantes}

----------------------------------------------------------------------------
(* Curso *)

curso_valido(c) == cursos[c].uc # NoneUC

\* The first failing check of Curso.__init__, or "ok".  The arguments have
\* the expected Python types, so the isinstance checks pass.
ValidarCurso(codigo_uc, anio, semestre, p) ==
    LET uc == buscar_uc_por_codigo(planes[p], codigo_uc)
    IN IF anio < 2000 THEN "anio"
       ELSE IF ~(1 <= semestre /\ semestre <= 10) THEN "semestre"
       ELSE IF uc = NoneUC THEN "uc"
       ELSE IF uc.codigo[2] # SinSufijo /\ semestre # uc.codigo[2] THEN "codigo"
       ELSE "ok"

\* Curso.__init__: a failed check is caught and leaves uc = None; otherwise
\* the attributes are set and generar_csv writes the file with no names.
CrearCurso(c, codigo_uc, anio, semestre, p) ==
    /\ cursos[c].estado = "sin_crear"
    /\ IF ValidarCurso(codigo_uc, anio, semestre, p) = "ok"
       THEN /\ cursos' = [cursos EXCEPT ![c] =
                    [estado |-> "valido",
                     uc |-> buscar_uc_por_codigo(planes[p], codigo_uc),
                     anio |-> anio, semestre |-> semestre, estudiantes |-> <<>>]]
            /\ csv_curso' = [csv_curso EXCEPT ![<<codigo_uc, anio, semestre>>] =
                    [existe |-> TRUE, inscritos |-> ""]]
            /\ ultima' = Llamada("Curso.__init__", "-", codigo_uc, c,
                                 Salida("None", <<"curso_creado">>))
       ELSE /\ cursos' = [cursos EXCEPT ![c] =
                    [CursoSinCrear EXCEPT !.estado = "invalido"]]
            /\ UNCHANGED csv_curso
            /\ ultima' = Llamada("Curso.__init__", "-", codigo_uc, c,
                                 Salida("None", <<"error_al_crear">>))
    /\ UNCHANGED <<planes, est, examenes, csv_examen, activos>>

\* Curso.actualizar_csv: the names written for the roster `estudiantes`.
CsvDeCurso(estudiantes) ==
    [existe |-> TRUE,
     inscritos |-> Join([i \in DOMAIN estudiantes |->
                            Datos[estudiantes[i]].nombre \o " "
                                \o Datos[estudiantes[i]].apellido])]

\* Curso.agregar_estudiante without `if not self.curso_valido(): return`.
CursoAgregaSinValidez(c, e) == ~EnLista(e, cursos[c].estudiantes)

\* Curso.agregar_estudiante without `if estudiante not in self.estudiantes`.
CursoAgregaSinRevisar(c, e) == curso_valido(c)

\* Whether Curso.agregar_estudiante(e) appends e to the roster.
CursoAgrega(c, e) == curso_valido(c) /\ ~EnLista(e, cursos[c].estudiantes)

\* Curso.agregar_estudiante without the call of actualizar_csv.
EfectoCursoAgregarSinCsv(c, e) ==
    IF CursoAgrega(c, e)
    THEN /\ cursos' = [cursos EXCEPT ![c].estudiantes = Append(@, e)]
         /\ UNCHANGED csv_curso
    ELSE UNCHANGED <<cursos, csv_curso>>

\* The effect of Curso.agregar_estudiante(e) on the course and its file.
EfectoCursoAgregar(c, e) ==
    IF CursoAgrega(c, e)
    THEN /\ cursos' = [cursos EXCEPT ![c].estudiantes = Append(@, e)]
         /\ csv_curso' = [csv_curso EXCEPT ![archivo_csv(c)] =
                CsvDeCurso(Append(cursos[c].estudiantes, e))]
    ELSE UNCHANGED <<cursos, csv_curso>>

SalidaCursoAgregar(c, e) ==
    IF ~curso_valido(c) THEN Salida("None", <<"curso_no_valido">>)
    ELSE IF ~EnLista(e, cursos[c].estudiantes) THEN Salida("None", <<"agregado">>)
    ELSE Salida("None", <<"ya_inscrito">>)

CursoAgregarEstudiante(c, e) ==
    /\ cursos[c].estado # "sin_crear"
    /\ EfectoCursoAgregar(c, e)
    /\ ultima' = Llamada("Curso.agregar_estudiante", e, <<0, 0>>, c,
                         SalidaCursoAgregar(c, e))
    /\ UNCHANGED <<planes, est, examenes, csv_examen, activos>>

----------------------------------------------------------------------------
(* InstanciaDeExamen *)

\* InstanciaDeExamen.generar_csv / actualizar_csv: the names are str(student).
CsvDeExamen(estudiantes) ==
    [existe |-> TRUE,
     inscritos |-> Join([i \in DOMAIN estudiantes |->
                            str_estudiante(estudiantes[i])])]

\* InstanciaDeExamen.__init__: any code is accepted; the file is written.
CrearExamen(x, codigo_uc) ==
    /\ ~examenes[x].creado
    /\ examenes' = [examenes EXCEPT ![x] =
            [creado |-> TRUE, codigo_uc |-> codigo_uc, estudiantes |-> <<>>]]
    /\ csv_examen' = [csv_examen EXCEPT ![x] = CsvDeExamen(<<>>)]
    /\ ultima' = Llamada("InstanciaDeExamen.__init__", "-", codigo_uc, x,
                         Salida("None", <<>>))
    /\ UNCHANGED <<planes, est, cursos, csv_curso, activos>>

\* The scan of the student's regular list made by agregar_estudiante.
ExamenRevisaRegular(x, e) ==
    RecorrerPorCodigo(est[e].ucs_regulares, examenes[x].codigo_uc)

\* InstanciaDeExamen.agregar_estudiante without the scan of ucs_regulares.
ExamenAgregaSinRegular(x, e) == ~EnLista(e, examenes[x].estudiantes)

\* Whether InstanciaDeExamen.agregar_estudiante(e) appends e to the roster.
ExamenAgrega(x, e) ==
    /\ ExamenRevisaRegular(x, e) = "match"
    /\ ~EnLista(e, examenes[x].estudiantes)

\* The effect of InstanciaDeExamen.agregar_estudiante(e) on the exam and its
\* file.
EfectoExamenAgregar(x, e) ==
    IF ExamenAgrega(x, e)
    THEN /\ examenes' = [examenes EXCEPT ![x].estudiantes = Append(@, e)]
         /\ csv_examen' = [csv_examen EXCEPT ![x] =
                CsvDeExamen(Append(examenes[x].estudiantes, e))]
    ELSE UNCHANGED <<examenes, csv_examen>>

SalidaExamenAgregar(x, e) ==
    IF ExamenRevisaRegular(x, e) = "error" THEN Salida("Error", <<>>)
    ELSE IF ExamenRevisaRegular(x, e) = "nomatch"
         THEN Salida("None", <<"no_regular">>)
    ELSE IF ~EnLista(e, examenes[x].estudiantes)
         THEN Salida("None", <<"inscrito">>)
    ELSE Salida("None", <<"ya_inscrito">>)

ExamenAgregarEstudiante(x, e) ==
    /\ examenes[x].creado
    /\ EfectoExamenAgregar(x, e)
    /\ ultima' = Llamada("InstanciaDeExamen.agregar_estudiante", e, <<0, 0>>, x,
                         SalidaExamenAgregar(x, e))
    /\ UNCHANGED <<planes, est, cursos, csv_curso, activos>>

----------------------------------------------------------------------------
(* Estudiante *)

PlanDelEstudiante(e) == planes[est[e].plan]

\* The positions of uc.previas whose unit is not among the approved codes.
previas_faltantes(e, uc) ==
    {i \in DOMAIN uc.previas :
        buscar_uc_por_codigo(PlanDelEstudiante(e), uc.previas[i]).codigo
            \notin CodigosDe(est[e].ucs_aprobadas)}

\* _puede_inscribirse that counts a prerequisite the plan does not hold as
\* one more missing prerequisite (`if previa is None or ...`).
FallaSinRevisarPrevias(e, codigo_uc) ==
    \/ TieneNone(est[e].ucs_aprobadas)
    \/ TieneNone(est[e].ucs_cursando)
    \/ buscar_uc_por_codigo(PlanDelEstudiante(e), codigo_uc) = NoneUC

\* Whether _puede_inscribirse reads an attribute of None: a None in the
\* approved or in-progress list, a unit code or a prerequisite code the plan
\* does not hold.
PuedeInscribirseFalla(e, codigo_uc) ==
    LET uc == buscar_uc_por_codigo(PlanDelEstudiante(e), codigo_uc)
    IN \/ TieneNone(est[e].ucs_aprobadas)
       \/ TieneNone(est[e].ucs_cursando)
       \/ uc = NoneUC
       \/ \E i \in DOMAIN uc.previas :
             buscar_uc_por_codigo(PlanDelEstudiante(e), uc.previas[i]) = NoneUC

\* _puede_inscribirse without its last check (the unit is already approved).
PuedeSinRevisarAprobada(e, codigo_uc) ==
    LET uc == buscar_uc_por_codigo(PlanDelEstudiante(e), codigo_uc)
    IN IF PuedeInscribirseFalla(e, codigo_uc) THEN Salida("Error", <<>>)
       ELSE IF previas_faltantes(e, uc) # {}
            THEN Salida("False", <<"faltan_previas">>)
       ELSE IF uc.codigo \in CodigosDe(est[e].ucs_cursando)
            THEN Salida("False", <<"ya_cursando">>)
       ELSE Salida("True", <<>>)

\* Estudiante._puede_inscribirse: its result ("True", "False", or "Error")
\* and the reason it prints.
_puede_inscribirse(e, codigo_uc) ==
    LET uc == buscar_uc_por_codigo(PlanDelEstudiante(e), codigo_uc)
    IN IF PuedeInscribirseFalla(e, codigo_uc) THEN Salida("Error", <<>>)
       ELSE IF previas_faltantes(e, uc) # {}
            THEN Salida("False", <<"faltan_previas">>)
       ELSE IF uc.codigo \in CodigosDe(est[e].ucs_cursando)
            THEN Salida("False", <<"ya_cursando">>)
       ELSE IF uc.codigo \in CodigosDe(est[e].ucs_aprobadas)
            THEN Salida("False", <<"ya_aprobo">>)
       ELSE Salida("True", <<>>)

\* _puede_inscribirse that also notes the unit as in progress when it
\* answers True.
PuedeQueAnota(e, codigo_uc) ==
    /\ ultima' = Llamada("_puede_inscribirse", e, codigo_uc, "-",
                         _puede_inscribirse(e, codigo_uc))
    /\ est' = IF _puede_inscribirse(e, codigo_uc).res = "True"
              THEN [est EXCEPT ![e].ucs_cursando =
                        Append(@, buscar_uc_por_codigo(PlanDelEstudiante(e),
                                                       codigo_uc))]
              ELSE est
    /\ UNCHANGED <<planes, cursos, examenes, csv_curso, csv_examen, activos>>

PuedeInscribirse(e, codigo_uc) ==
    /\ ultima' = Llamada("_puede_inscribirse", e, codigo_uc, "-",
                         _puede_inscribirse(e, codigo_uc))
    /\ UNCHANGED <<planes, est, cursos, examenes, csv_curso, csv_examen, activos>>

\* The outcome of the two loops of Estudiante.inscribirse_a_examen:
\* "inscribe" (a regular unit has the code: agregar_estudiante is called),
\* "aprobada" (refused, already approved), "rechazo" (refused), "error".
DecisionExamen(e, x) ==
    LET reg == RecorrerPorCodigo(est[e].ucs_regulares, examenes[x].codigo_uc)
        apr == RecorrerPorCodigo(est[e].ucs_aprobadas, examenes[x].codigo_uc)
    IN IF reg = "match" THEN "inscribe"
       ELSE IF reg = "error" THEN "error"
       ELSE IF apr = "match" THEN "aprobada"
       ELSE IF apr = "error" THEN "error"
       ELSE "rechazo"

\* What Estudiante.inscribirse_a_examen does to the exam and its file.
EfectoInscribirseAExamen(e, x) ==
    IF DecisionExamen(e, x) = "inscribe"
    THEN EfectoExamenAgregar(x, e)
    ELSE UNCHANGED <<examenes, csv_examen>>

SalidaInscribirseAExamen(e, x) ==
    IF DecisionExamen(e, x) = "inscribe"
    THEN Salida(SalidaExamenAgregar(x, e).res,
                SalidaExamenAgregar(x, e).msgs \o <<"estas_inscripto">>)
    ELSE IF DecisionExamen(e, x) = "aprobada"
         THEN Salida("None", <<"ya_aprobaste">>)
    ELSE IF DecisionExamen(e, x) = "rechazo"
         THEN Salida("None", <<"no_cumple">>)
    ELSE Salida("Error", <<>>)

InscribirseAExamen(e, x) ==
    /\ examenes[x].creado
    /\ EfectoInscribirseAExamen(e, x)
    /\ ultima' = Llamada("Estudiante.inscribirse_a_examen", e, <<0, 0>>, x,
                         SalidaInscribirseAExamen(e, x))
    /\ UNCHANGED <<planes, est, cursos, csv_curso, activos>>

\* Whether an enrollment call gets past the validity and eligibility checks.
CursoAdmite(e, c) ==
    curso_valido(c) /\ _puede_inscribirse(e, cursos[c].uc.codigo).res = "True"

\* The enrollment that appends to ucs_cursando before asking
\* _puede_inscribirse.
EfectoInscribirSinPreguntar(e, c) ==
    IF curso_valido(c)
    THEN /\ est' = [est EXCEPT ![e].ucs_cursando = Append(@, cursos[c].uc)]
         /\ IF _puede_inscribirse(e, cursos[c].uc.codigo).res = "True"
            THEN EfectoCursoAgregar(c, e)
            ELSE UNCHANGED <<cursos, csv_curso>>
    ELSE UNCHANGED <<est, cursos, csv_curso>>

\* The effect shared by Estudiante.inscribirse_a_curso and the staff
\* inscribir_a_curso: the append to ucs_cursando and the call of
\* Curso.agregar_estudiante.
EfectoInscribirACurso(e, c) ==
    IF CursoAdmite(e, c)
    THEN /\ est' = [est EXCEPT ![e].ucs_cursando = Append(@, cursos[c].uc)]
         /\ EfectoCursoAgregar(c, e)
    ELSE UNCHANGED <<est, cursos, csv_curso>>

SalidaInscribirseACurso(e, c) ==
    IF ~curso_valido(c) THEN Salida("None", <<"curso_no_valido">>)
    ELSE IF CursoAdmite(e, c) THEN SalidaCursoAgregar(c, e)
    ELSE IF _puede_inscribirse(e, cursos[c].uc.codigo).res = "False"
         THEN Salida("None", _puede_inscribirse(e, cursos[c].uc.codigo).msgs)
    ELSE Salida("Error", <<>>)

InscribirseACurso(e, c) ==
    /\ cursos[c].estado # "sin_crear"
    /\ EfectoInscribirACurso(e, c)
    /\ ultima' = Llamada("Estudiante.inscribirse_a_curso", e, <<0, 0>>, c,
                         SalidaInscribirseACurso(e, c))
    /\ UNCHANGED <<planes, examenes, csv_examen, activos>>

----------------------------------------------------------------------------
(* Coordinadora and Secretaria: the two classes hold the same methods, line *)
(* for line, so one definition models both.                                 *)

\* The pre-check written against ucs_aprobadas instead of ucs_regulares.
StaffRevisaAprobada(e, x) ==
    LET uc == buscar_uc_por_codigo(PlanDelEstudiante(e), examenes[x].codigo_uc)
    IN uc # NoneUC /\ EnLista(uc, est[e].ucs_aprobadas)

\* The pre-check of inscribir_a_examen: `uc and uc in estudiante.ucs_regulares`.
StaffRevisaRegular(e, x) ==
    LET uc == buscar_uc_por_codigo(PlanDelEstudiante(e), examenes[x].codigo_uc)
    IN uc # NoneUC /\ EnLista(uc, est[e].ucs_regulares)

\* inscribir_a_examen: the else branch prints uc.codigo, which raises when
\* the plan does not hold the exam's code.
SalidaInscribirAExamen(e, x) ==
    IF StaffRevisaRegular(e, x) THEN SalidaInscribirseAExamen(e, x)
    ELSE IF buscar_uc_por_codigo(PlanDelEstudiante(e),
                                 examenes[x].codigo_uc) = NoneUC
         THEN Salida("Error", <<>>)
    ELSE Salida("None", <<"no_regular">>)

InscribirAExamen(e, x) ==
    /\ examenes[x].creado
    /\ IF StaffRevisaRegular(e, x)
       THEN EfectoInscribirseAExamen(e, x)
       ELSE UNCHANGED <<examenes, csv_examen>>
    /\ ultima' = Llamada("inscribir_a_examen", e, <<0, 0>>, x,
                         SalidaInscribirAExamen(e, x))
    /\ UNCHANGED <<planes, est, cursos, csv_curso, activos>>

SalidaInscribirACurso(e, c) ==
    IF ~curso_valido(c) THEN Salida("None", <<"curso_no_valido">>)
    ELSE IF CursoAdmite(e, c) THEN SalidaCursoAgregar(c, e)
    ELSE IF _puede_inscribirse(e, cursos[c].uc.codigo).res = "False"
         THEN Salida("None", _puede_inscribirse(e, cursos[c].uc.codigo).msgs
                                \o <<"no_puede_inscribirse">>)
    ELSE Salida("Error", <<>>)

InscribirACurso(e, c) ==
    /\ cursos[c].estado # "sin_crear"
    /\ EfectoInscribirACurso(e, c)
    /\ ultima' = Llamada("inscribir_a_curso", e, <<0, 0>>, c,
                         SalidaInscribirACurso(e, c))
    /\ UNCHANGED <<planes, examenes, csv_examen, activos>>

\* Both branches of the four methods below print uc.nombre: the call raises
\* when the plan does not hold the code, after the list was changed.
SalidaStaffUc(uc, msg) ==
    IF uc = NoneUC THEN Salida("Error", <<>>) ELSE Salida("None", <<msg>>)

AgregarSiFalta(lista, uc) == IF ~EnLista(uc, lista) THEN Append(lista, uc) ELSE lista

QuitarSiEsta(lista, uc) == IF EnLista(uc, lista) THEN QuitarPrimero(lista, uc) ELSE lista

\* agregar_uc_aprobada that also takes the approved unit out of the
\* in-progress list.
AprobarYPodar(e, codigo_uc) ==
    LET uc == buscar_uc_por_codigo(PlanDelEstudiante(e), codigo_uc)
    IN /\ est' = [est EXCEPT ![e].ucs_aprobadas = AgregarSiFalta(@, uc),
                             ![e].ucs_cursando = QuitarSiEsta(@, uc)]
       /\ ultima' = Llamada("agregar_uc_aprobada", e, codigo_uc, "-",
               SalidaStaffUc(uc, IF EnLista(uc, est[e].ucs_aprobadas)
                                 THEN "ya_estaba" ELSE "agregada"))
       /\ UNCHANGED <<planes, cursos, examenes, csv_curso, csv_examen, activos>>

agregar_uc_aprobada(e, codigo_uc) ==
    LET uc == buscar_uc_por_codigo(PlanDelEstudiante(e), codigo_uc)
    IN /\ est' = [est EXCEPT ![e].ucs_aprobadas = AgregarSiFalta(@, uc)]
       /\ ultima' = Llamada("agregar_uc_aprobada", e, codigo_uc, "-",
               SalidaStaffUc(uc, IF EnLista(uc, est[e].ucs_aprobadas)
                                 THEN "ya_estaba" ELSE "agregada"))
       /\ UNCHANGED <<planes, cursos, examenes, csv_curso, csv_examen, activos>>

agregar_uc_regular(e, codigo_uc) ==
    LET uc == buscar_uc_por_codigo(PlanDelEstudiante(e), codigo_uc)
    IN /\ est' = [est EXCEPT ![e].ucs_regulares = AgregarSiFalta(@, uc)]
       /\ ultima' = Llamada("agregar_uc_regular", e, codigo_uc, "-",
               SalidaStaffUc(uc, IF EnLista(uc, est[e].ucs_regulares)
                                 THEN "ya_estaba" ELSE "agregada"))
       /\ UNCHANGED <<planes, cursos, examenes, csv_curso, csv_examen, activos>>

quitar_uc_aprobada(e, codigo_uc) ==
    LET uc == buscar_uc_por_codigo(PlanDelEstudiante(e), codigo_uc)
    IN /\ est' = [est EXCEPT ![e].ucs_aprobadas = QuitarSiEsta(@, uc)]
       /\ ultima' = Llamada("quitar_uc_aprobada", e, codigo_uc, "-",
               SalidaStaffUc(uc, IF EnLista(uc, est[e].ucs_aprobadas)
                                 THEN "removida" ELSE "no_esta"))
       /\ UNCHANGED <<planes, cursos, examenes, csv_curso, csv_examen, activos>>

quitar_uc_regular(e, codigo_uc) ==
    LET uc == buscar_uc_por_codigo(PlanDelEstudiante(e), codigo_uc)
    IN /\ est' = [est EXCEPT ![e].ucs_regulares = QuitarSiEsta(@, uc)]
       /\ ultima' = Llamada("quitar_uc_regular", e, codigo_uc, "-",
               SalidaStaffUc(uc, IF EnLista(uc, est[e].ucs_regulares)
                                 THEN "removida" ELSE "no_esta"))
       /\ UNCHANGED <<planes, cursos, examenes, csv_curso, csv_examen, activos>>

----------------------------------------------------------------------------
(* The system *)

Next ==
    \/ \E c \in Cursos, cod \in Codigos, a \in Anios, s \in Semestres,
          p \in NombresDePlan : CrearCurso(c, cod, a, s, p)
    \/ \E x \in Examenes, cod \in Codigos : CrearExamen(x, cod)
    \/ \E c \in Cursos, e \in activos : CursoAgregarEstudiante(c, e)
    \/ \E x \in Examenes, e \in activos : ExamenAgregarEstudiante(x, e)
    \/ \E e \in activos, cod \in Codigos : PuedeInscribirse(e, cod)
    \/ \E e \in activos, x \in Examenes : InscribirseAExamen(e, x)
    \/ \E e \in activos, c \in Cursos : InscribirseACurso(e, c)
    \/ \E e \in activos, x \in Examenes : InscribirAExamen(e, x)
    \/ \E e \in activos, c \in Cursos : InscribirACurso(e, c)
    \/ \E e \in activos, cod \in Codigos : agregar_uc_aprobada(e, cod)
    \/ \E e \in activos, cod \in Codigos : agregar_uc_regular(e, cod)
    \/ \E e \in activos, cod \in Codigos : quitar_uc_aprobada(e, cod)
    \/ \E e \in activos, cod \in Codigos : quitar_uc_regular(e, cod)

Spec == Init /\ [][Next]_vars

----------------------------------------------------------------------------
(* Sessions about courses: two Curso objects built over three plans, both   *)
(* students acting, and the operations that touch a course.                 *)

DosCursos == {"c1", "c2"}

InitCursos ==
    /\ planes = [p \in PlanesDeCursos |->
                    IF p = "A" THEN PlanA ELSE IF p = "B" THEN PlanB ELSE PlanC]
    /\ est = [e \in Estudiantes |->
                [plan |-> PlanDe[e], ucs_aprobadas |-> <<>>, ucs_regulares |-> <<>>,
                 ucs_a_examen |-> <<>>, ucs_cursando |-> <<>>]]
    /\ cursos = [c \in DosCursos |-> CursoSinCrear]
    /\ examenes = [x \in Examenes |-> ExamenSinCrear]
    /\ csv_curso = [f \in ArchivosDeCurso |-> SinArchivo]
    /\ csv_examen = [x \in Examenes |-> SinArchivo]
    /\ ultima = Llamada("inicio", "-", <<0, 0>>, "-", Salida("None", <<>>))
    /\ activos = Estudiantes

NextCursos ==
    \/ \E c \in DosCursos, cod \in CodigosDeCurso, a \in Anios, s \in Semestres,
          p \in PlanesDeCursos : CrearCurso(c, cod, a, s, p)
    \/ \E c \in DosCursos, e \in activos : CursoAgregarEstudiante(c, e)
    \/ \E e \in activos, c \in DosCursos : InscribirseACurso(e, c)
    \/ \E e \in activos, c \in DosCursos : InscribirACurso(e, c)

SpecCursos == InitCursos /\ [][NextCursos]_vars

----------------------------------------------------------------------------
(* Sessions about one plan of src/PlanDeEstudio.py: the plan is loaded and  *)
(* then units are added by hand, removed and looked up.                     *)

\* The most units the plan holds.
MaxMaterias == 4

\* The plans the session can start from, as loaded from the JSON file.
PlanesIniciales ==
    { <<>>,
      PlanA,
      << UnidadCurricular(1, <<2, 1>>, <<>>) >> }

\* The codes asked for.
CodigosBuscados == {<<1, 1>>, <<2, 1>>, <<1, 2>>, <<3, 1>>}

\* The record of a call on the plan: `devuelve` is the unit returned.
LlamadaPlan(op, codigo, devuelve, salida) ==
    [op |-> op, e |-> "-", codigo |-> codigo, obj |-> "-",
     res |-> salida.res, msgs |-> salida.msgs, devuelve |-> devuelve]

InitPlan ==
    /\ planes \in {[p \in {"P"} |-> m] : m \in PlanesIniciales}
    /\ est = [e \in Estudiantes |->
                [plan |-> "P", ucs_aprobadas |-> <<>>, ucs_regulares |-> <<>>,
                 ucs_a_examen |-> <<>>, ucs_cursando |-> <<>>]]
    /\ cursos = [c \in Cursos |-> CursoSinCrear]
    /\ examenes = [x \in Examenes |-> ExamenSinCrear]
    /\ csv_curso = [f \in ArchivosDeCurso |-> SinArchivo]
    /\ csv_examen = [x \in Examenes |-> SinArchivo]
    /\ ultima = LlamadaPlan("inicio", <<0, 0>>, NoneUC, Salida("None", <<>>))
    /\ activos = {}

\* A new object is none of the objects the plan holds: the first identity
\* that no unit of the plan has.
IdNuevo(materias) ==
    LET ids == {materias[i].id : i \in DOMAIN materias}
        libres == (1 .. Len(materias) + 1) \ ids
    IN CHOOSE n \in libres : \A k \in libres : n <= k

\* sum(1 for uc in self.materias if uc.codigo.endswith(f"S{semestre}"))
num_materias_semestre(materias, semestre) ==
    Cardinality({i \in DOMAIN materias : materias[i].codigo[2] = semestre})

\* PlanDeEstudio.agregar_materia_manual: `campos` says whether nombre,
\* creditos and semestre were all given; a missing field or a term outside
\* 1..10 raises ValueError.
agregar_materia_manual(p, campos, semestre, previas) ==
    /\ Len(planes[p]) < MaxMaterias
    /\ IF ~campos \/ semestre < 1 \/ semestre > 10
       THEN /\ UNCHANGED planes
            /\ ultima' = LlamadaPlan("agregar_materia_manual", <<0, 0>>, NoneUC,
                                     Salida("Error", <<>>))
       ELSE LET codigo == <<num_materias_semestre(planes[p], semestre) + 1,
                            semestre>>
            IN /\ planes' = [planes EXCEPT ![p] =
                    Append(@, UnidadCurricular(IdNuevo(planes[p]), codigo, previas))]
               /\ ultima' = LlamadaPlan("agregar_materia_manual", codigo, NoneUC,
                                        Salida("None", <<"agregada">>))
    /\ UNCHANGED <<est, cursos, examenes, csv_curso, csv_examen, activos>>

\* quitar_materia that removes every unit with the code.
QuitarTodas(p, codigo) ==
    /\ planes' = [planes EXCEPT ![p] =
            SelectSeq(@, LAMBDA u : u.codigo # codigo)]
    /\ ultima' = LlamadaPlan("quitar_materia", codigo, NoneUC,
            IF buscar_uc_por_codigo(planes[p], codigo) # NoneUC
            THEN Salida("None", <<"eliminada">>)
            ELSE Salida("None", <<"no_encontrada">>))
    /\ UNCHANGED <<est, cursos, examenes, csv_curso, csv_examen, activos>>

\* PlanDeEstudio.quitar_materia: list.remove takes out the object found.
quitar_materia(p, codigo) ==
    LET materia == buscar_uc_por_codigo(planes[p], codigo)
    IN /\ IF materia # NoneUC
          THEN /\ planes' = [planes EXCEPT ![p] = QuitarPrimero(@, materia)]
               /\ ultima' = LlamadaPlan("quitar_materia", codigo, NoneUC,
                                        Salida("None", <<"eliminada">>))
          ELSE /\ UNCHANGED planes
               /\ ultima' = LlamadaPlan("quitar_materia", codigo, NoneUC,
                                        Salida("None", <<"no_encontrada">>))
       /\ UNCHANGED <<est, cursos, examenes, csv_curso, csv_examen, activos>>

\* A call of PlanDeEstudio.buscar_uc_por_codigo.
BuscarUc(p, codigo) ==
    /\ ultima' = LlamadaPlan("buscar_uc_por_codigo", codigo,
                             buscar_uc_por_codigo(planes[p], codigo),
                             Salida("None", <<>>))
    /\ UNCHANGED <<planes, est, cursos, examenes, csv_curso, csv_examen, activos>>

NextPlan ==
    \/ \E campos \in BOOLEAN, s \in Semestres :
            agregar_materia_manual("P", campos, s, <<>>)
    \/ \E cod \in CodigosBuscados : quitar_materia("P", cod)
    \/ \E cod \in CodigosBuscados : BuscarUc("P", cod)

SpecPlan == InitPlan /\ [][NextPlan]_vars

----------------------------------------------------------------------------
(* Properties *)

UnidadesDelPlan(e) ==
    {PlanDelEstudiante(e)[i] : i \in DOMAIN PlanDelEstudiante(e)}

CodigosDelPlan(e) == {u.codigo : u \in UnidadesDelPlan(e)}

Elementos(lista) == {lista[i] : i \in DOMAIN lista}

\* The approved and in-progress lists of e hold only units of e's plan.
SoloUnidadesDelPlan(e) ==
    /\ Elementos(est[e].ucs_aprobadas) \subseteq UnidadesDelPlan(e)
    /\ Elementos(est[e].ucs_cursando) \subseteq UnidadesDelPlan(e)

\* Every prerequisite code of unit u is a code of e's plan.
PreviasResuelven(e, u) ==
    \A i \in DOMAIN u.previas : u.previas[i] \in CodigosDelPlan(e)

\* The condition of the eligibility rule, stated on the student's lists.
ReglaDeInscripcion(e, u) ==
    /\ \A i \in DOMAIN u.previas :
          \E a \in Elementos(est[e].ucs_aprobadas) : a.codigo = u.previas[i]
    /\ u \notin Elementos(est[e].ucs_cursando)
    /\ u \notin Elementos(est[e].ucs_aprobadas)

\* C1: for a student whose approved and in-progress lists hold only units of
\* the plan, and a unit of the plan whose prerequisite codes all resolve, a
\* call of _puede_inscribirse returns True exactly when every prerequisite is
\* approved and the unit is neither in progress nor approved, and False
\* otherwise.
C1_Elegibilidad ==
    [][ultima'.op = "_puede_inscribirse" =>
        \A u \in UnidadesDelPlan(ultima'.e) :
            (/\ u.codigo = ultima'.codigo
             /\ SoloUnidadesDelPlan(ultima'.e)
             /\ PreviasResuelven(ultima'.e, u))
            => /\ ultima'.res \in {"True", "False"}
               /\ ultima'.res = "True" <=> ReglaDeInscripcion(ultima'.e, u)]_vars

\* C1 witness: the check answered True for UC1S2, whose prerequisite UC1S1 is
\* approved.
C1_Testigo ==
    /\ ultima.op = "_puede_inscribirse"
    /\ ultima.res = "True"
    /\ ultima.codigo = <<1, 2>>
    /\ SoloUnidadesDelPlan(ultima.e)
    /\ \E a \in Elementos(est[ultima.e].ucs_aprobadas) : a.codigo = <<1, 1>>

\* C2: when the plan does not hold the code, _puede_inscribirse reports the
\* failure and returns False.
C2_CodigoDesconocido ==
    [][(/\ ultima'.op = "_puede_inscribirse"
        /\ ultima'.codigo \notin CodigosDelPlan(ultima'.e))
       => (ultima'.res = "False" /\ ultima'.msgs # <<>>)]_vars

\* C3: a call of _puede_inscribirse changes no list of any student, no plan,
\* no roster and no file.
C3_SinEfectos ==
    [][ultima'.op = "_puede_inscribirse" =>
        UNCHANGED <<planes, est, cursos, examenes, csv_curso, csv_examen>>]_vars

\* C3 witness: the check ran (and refused) for a student who is in a course
\* roster and has a unit in progress.
C3_Testigo ==
    /\ ultima.op = "_puede_inscribirse"
    /\ ultima.msgs = <<"ya_cursando">>
    /\ est[ultima.e].ucs_cursando # <<>>
    /\ \E c \in Cursos : EnLista(ultima.e, cursos[c].estudiantes)

OpsInscribirCurso == {"Estudiante.inscribirse_a_curso", "inscribir_a_curso"}

OpsInscribirExamen == {"Estudiante.inscribirse_a_examen", "inscribir_a_examen"}

\* The enrolled-names field for a roster: the full names, comma-joined.
NombresInscritos(estudiantes) ==
    Join([i \in DOMAIN estudiantes |-> nombre_completo(estudiantes[i])])

\* Some unit of the list has the code.
TieneCodigo(lista, codigo) ==
    \E u \in Elementos(lista) : u # NoneUC /\ u.codigo = codigo

\* C4: an enrollment call (student or staff) on a valid course, with the
\* eligibility check true for the course's unit, leaves the unit in
\* ucs_cursando, the student in the roster and the course's file listing the
\* names of the new roster.
C4_InscripcionACurso ==
    [][(/\ ultima'.op \in OpsInscribirCurso
        /\ curso_valido(ultima'.obj)
        /\ _puede_inscribirse(ultima'.e,
                              cursos[ultima'.obj].uc.codigo).res = "True")
       => /\ EnLista(cursos[ultima'.obj].uc, est'[ultima'.e].ucs_cursando)
          /\ EnLista(ultima'.e, cursos'[ultima'.obj].estudiantes)
          /\ csv_curso'[archivo_csv(ultima'.obj)] =
                [existe |-> TRUE,
                 inscritos |->
                    NombresInscritos(cursos'[ultima'.obj].estudiantes)]]_vars

\* C4 witness: a staff enrollment added the student, who is now in the
\* roster, in the file and has the unit in progress.
C4_Testigo ==
    /\ ultima.op = "inscribir_a_curso"
    /\ ultima.msgs = <<"agregado">>
    /\ cursos[ultima.obj].estudiantes = <<ultima.e>>
    /\ est[ultima.e].ucs_cursando = <<cursos[ultima.obj].uc>>
    /\ csv_curso[archivo_csv(ultima.obj)].inscritos = nombre_completo(ultima.e)

\* C5: an enrollment call on an invalid course, or with the eligibility check
\* false, changes no student list, no roster and no file.
C5_RechazoSinCambios ==
    [][(/\ ultima'.op \in OpsInscribirCurso
        /\ \/ ~curso_valido(ultima'.obj)
           \/ _puede_inscribirse(ultima'.e,
                                 cursos[ultima'.obj].uc.codigo).res = "False")
       => UNCHANGED <<planes, est, cursos, examenes, csv_curso, csv_examen>>]_vars

\* C5 witness: a staff enrollment was refused for a missing prerequisite.
C5_Testigo ==
    /\ ultima.op = "inscribir_a_curso"
    /\ ultima.msgs = <<"faltan_previas", "no_puede_inscribirse">>
    /\ curso_valido(ultima.obj)
    /\ cursos[ultima.obj].estudiantes = <<>>

SinRepetidos(lista) ==
    \A i, j \in DOMAIN lista : i # j => lista[i] # lista[j]

\* C6: no roster ever holds a student twice, and a call that enrolls or
\* registers a student already in the roster leaves its length unchanged.
C6_Idempotencia ==
    [][/\ \A c \in Cursos : SinRepetidos(cursos'[c].estudiantes)
       /\ \A x \in Examenes : SinRepetidos(examenes'[x].estudiantes)
       /\ \A c \in Cursos :
            (/\ ultima'.op \in OpsInscribirCurso \cup {"Curso.agregar_estudiante"}
             /\ ultima'.obj = c
             /\ EnLista(ultima'.e, cursos[c].estudiantes))
            => Len(cursos'[c].estudiantes) = Len(cursos[c].estudiantes)
       /\ \A x \in Examenes :
            (/\ ultima'.op \in OpsInscribirExamen
                                \cup {"InstanciaDeExamen.agregar_estudiante"}
             /\ ultima'.obj = x
             /\ EnLista(ultima'.e, examenes[x].estudiantes))
            => Len(examenes'[x].estudiantes) = Len(examenes[x].estudiantes)]_vars

\* C6 witness: a second exam registration of a regular student was reported
\* as already registered and the roster holds one student.
C6_Testigo ==
    /\ ultima.op = "Estudiante.inscribirse_a_examen"
    /\ ultima.msgs = <<"ya_inscrito", "estas_inscripto">>
    /\ Len(examenes[ultima.obj].estudiantes) = 1

\* C7: a step adds a student to an exam roster only if the student's regular
\* list holds a unit with the exam's code, and a registration call for a
\* student with no such unit in the regular or the approved list leaves the
\* roster and the file unchanged.
C7_SoloRegulares ==
    [][/\ \A x \in Examenes, e \in Estudiantes :
            (/\ ~EnLista(e, examenes[x].estudiantes)
             /\ EnLista(e, examenes'[x].estudiantes))
            => TieneCodigo(est[e].ucs_regulares, examenes[x].codigo_uc)
       /\ (/\ ultima'.op \in OpsInscribirExamen
                              \cup {"InstanciaDeExamen.agregar_estudiante"}
           /\ ~TieneCodigo(est[ultima'.e].ucs_regulares,
                           examenes[ultima'.obj].codigo_uc)
           /\ ~TieneCodigo(est[ultima'.e].ucs_aprobadas,
                           examenes[ultima'.obj].codigo_uc))
          => UNCHANGED <<examenes, csv_examen>>]_vars

\* C7 witness: a regular student registered and is in the roster.
C7_Testigo ==
    /\ ultima.op = "Estudiante.inscribirse_a_examen"
    /\ ultima.msgs = <<"inscrito", "estas_inscripto">>
    /\ EnLista(ultima.e, examenes[ultima.obj].estudiantes)
    /\ TieneCodigo(est[ultima.e].ucs_regulares, examenes[ultima.obj].codigo_uc)

EstudianteAgregaria(e, x) == DecisionExamen(e, x) = "inscribe" /\ ExamenAgrega(x, e)

StaffAgregaria(e, x) == StaffRevisaRegular(e, x) /\ EstudianteAgregaria(e, x)

\* C9: in every reachable state the staff pre-check (the plan's unit for the
\* exam's code is in the regular list) holds exactly when some unit of the
\* regular list has the exam's code, and a staff-initiated registration would
\* add the student exactly when a student-initiated one would.
C9_RevisionesCoinciden ==
    \A e \in activos, x \in Examenes :
        examenes[x].creado =>
            /\ StaffRevisaRegular(e, x)
                  <=> TieneCodigo(est[e].ucs_regulares, examenes[x].codigo_uc)
            /\ StaffAgregaria(e, x) <=> EstudianteAgregaria(e, x)

\* C9 witness: a staff registration passed the pre-check and added the student.
C9_Testigo ==
    /\ ultima.op = "inscribir_a_examen"
    /\ ultima.msgs = <<"inscrito", "estas_inscripto">>
    /\ EnLista(ultima.e, examenes[ultima.obj].estudiantes)

\* C10: no enrollment or registration call, by the student or by the staff,
\* ends in an error.
C10_SinErrores ==
    ultima.op \in OpsInscribirCurso \cup OpsInscribirExamen
                    \cup {"_puede_inscribirse"}
        => ultima.res # "Error"

\* C11: a course whose construction failed validation stays invalid for
\* ever, its construction wrote no file, and every later call that would
\* change its roster (Curso.agregar_estudiante, student or staff enrollment)
\* is refused and changes no roster, no student list and no file.
C11_InvalidoPermanente ==
    [][\A c \in DOMAIN cursos :
        /\ (cursos[c].estado = "sin_crear" /\ cursos'[c].estado = "invalido")
                => (cursos'[c].uc = NoneUC /\ csv_curso' = csv_curso)
        /\ cursos[c].estado = "invalido"
                => /\ cursos'[c].estado = "invalido"
                   /\ cursos'[c].uc = NoneUC
                   /\ (/\ ultima'.obj = c
                       /\ ultima'.op \in OpsInscribirCurso
                                          \cup {"Curso.agregar_estudiante"})
                      => /\ ultima'.msgs = <<"curso_no_valido">>
                         /\ UNCHANGED <<planes, est, cursos, examenes,
                                        csv_curso, csv_examen>>]_vars

\* C11 witness: a direct roster call on an invalid course was refused while
\* the other course is valid and has a student.
C11_Testigo ==
    /\ ultima.op = "Curso.agregar_estudiante"
    /\ ultima.msgs = <<"curso_no_valido">>
    /\ cursos[ultima.obj].estado = "invalido"
    /\ \E d \in DOMAIN cursos : cursos[d].estudiantes # <<>>

\* C12: every valid course has a year strictly greater than 2000.
C12_AnioMayorA2000 ==
    \A c \in DOMAIN cursos :
        cursos[c].estado = "valido" => cursos[c].anio > 2000

\* C13: every valid course has a term in 1..10 that is the term encoded in
\* its unit's code; a unit code that encodes no term gives no valid course.
C13_SemestreDelCodigo ==
    \A c \in DOMAIN cursos :
        cursos[c].estado = "valido"
            => /\ 1 <= cursos[c].semestre /\ cursos[c].semestre <= 10
               /\ cursos[c].uc.codigo[2] # SinSufijo
               /\ cursos[c].uc.codigo[2] = cursos[c].semestre

\* C14: for every valid course, in every state, the enrolled-names field of
\* the course's file is the full names of the course's roster, comma-joined
\* in insertion order (empty for an empty roster).
C14_ArchivoDeCurso ==
    \A c \in DOMAIN cursos :
        cursos[c].estado = "valido"
            => csv_curso[archivo_csv(c)] =
                    [existe |-> TRUE,
                     inscritos |-> NombresInscritos(cursos[c].estudiantes)]

\* C15: for every exam sitting, in every state, the enrolled-names field of
\* the exam's file is the full names (nombre_completo) of the exam's roster,
\* comma-joined in insertion order.
C15_ArchivoDeExamen ==
    \A x \in Examenes :
        examenes[x].creado
            => csv_examen[x] =
                    [existe |-> TRUE,
                     inscritos |-> NombresInscritos(examenes[x].estudiantes)]

\* C16: a lookup never ends in an error and leaves the plan unchanged; it
\* returns a unit of the plan with the code asked for when the plan holds
\* one, and None when it holds none.
C16_BusquedaTotal ==
    [][ultima'.op = "buscar_uc_por_codigo" =>
        LET m == planes["P"]
        IN /\ ultima'.res # "Error"
           /\ planes' = planes
           /\ IF \E i \in DOMAIN m : m[i].codigo = ultima'.codigo
              THEN /\ ultima'.devuelve \in Elementos(m)
                   /\ ultima'.devuelve.codigo = ultima'.codigo
              ELSE ultima'.devuelve = NoneUC]_vars

\* C16 witness: a lookup found the last unit of a plan of three units, and
\* another code is in no unit of the plan.
C16_Testigo ==
    /\ ultima.op = "buscar_uc_por_codigo"
    /\ Len(planes["P"]) = 3
    /\ ultima.devuelve = planes["P"][3]
    /\ \E cod \in CodigosBuscados :
            buscar_uc_por_codigo(planes["P"], cod) = NoneUC

\* C17: no two units of the plan have the same code, after any sequence of
\* agregar_materia_manual and quitar_materia from a plan with unique codes.
C17_CodigosUnicos ==
    \A i, j \in DOMAIN planes["P"] :
        i # j => planes["P"][i].codigo # planes["P"][j].codigo

\* C18: quitar_materia never ends in an error; when the plan holds a unit
\* with the code, one unit with that code is taken out and the others keep
\* their order; otherwise the plan is unchanged and not-found is reported.
C18_QuitarMateria ==
    [][ultima'.op = "quitar_materia" =>
        LET m == planes["P"]
        IN /\ ultima'.res # "Error"
           /\ IF \E i \in DOMAIN m : m[i].codigo = ultima'.codigo
              THEN /\ ultima'.msgs = <<"eliminada">>
                   /\ \E i \in DOMAIN m :
                        /\ m[i].codigo = ultima'.codigo
                        /\ planes'["P"] = SubSeq(m, 1, i - 1)
                                            \o SubSeq(m, i + 1, Len(m))
              ELSE /\ ultima'.msgs = <<"no_encontrada">>
                   /\ planes' = planes]_vars

\* C18 witness: a unit was removed from the middle of the plan.
C18_Testigo ==
    /\ ultima.op = "quitar_materia"
    /\ ultima.msgs = <<"eliminada">>
    /\ Len(planes["P"]) = 2
    /\ planes["P"][1].codigo[2] = 1
    /\ planes["P"][2].codigo[2] = 2
    /\ ultima.codigo[2] = 1

\* C19: for no student does a unit code appear both in the approved list and
\* in the in-progress list or the regular list.
C19_AprobadaSeparada ==
    \A e \in Estudiantes :
        \A cod \in Codigos :
            TieneCodigo(est[e].ucs_aprobadas, cod)
                => /\ ~TieneCodigo(est[e].ucs_cursando, cod)
                   /\ ~TieneCodigo(est[e].ucs_regulares, cod)

EsPrefijo(a, b) == Len(a) <= Len(b) /\ SubSeq(b, 1, Len(a)) = a

\* C20: no step takes a unit out of an in-progress list or a student out of
\* a course or exam roster; approving a unit or removing its regular status
\* leaves the in-progress lists and the rosters unchanged; and an enrollment
\* call for a course whose unit code the student already has in progress
\* adds nothing.
C20_SinPoda ==
    [][/\ \A e \in Estudiantes :
            EsPrefijo(est[e].ucs_cursando, est'[e].ucs_cursando)
       /\ \A c \in DOMAIN cursos :
            EsPrefijo(cursos[c].estudiantes, cursos'[c].estudiantes)
       /\ \A x \in Examenes :
            EsPrefijo(examenes[x].estudiantes, examenes'[x].estudiantes)
       /\ ultima'.op \in {"agregar_uc_aprobada", "quitar_uc_regular"}
            => /\ \A e \in Estudiantes :
                    est'[e].ucs_cursando = est[e].ucs_cursando
               /\ UNCHANGED <<cursos, examenes>>
       /\ (/\ ultima'.op \in OpsInscribirCurso
           /\ curso_valido(ultima'.obj)
           /\ TieneCodigo(est[ultima'.e].ucs_cursando,
                          cursos[ultima'.obj].uc.codigo))
            => /\ UNCHANGED <<est, cursos, csv_curso>>
               /\ ultima'.msgs # <<"agregado">>]_vars

\* C20 witness: the unit a student is taking was approved, and the unit is
\* still in progress and the student still in the course roster.
C20_Testigo ==
    /\ ultima.op = "agregar_uc_aprobada"
    /\ ultima.msgs = <<"agregada">>
    /\ TieneCodigo(est[ultima.e].ucs_cursando, ultima.codigo)
    /\ \E c \in DOMAIN cursos :
            /\ EnLista(ultima.e, cursos[c].estudiantes)
            /\ cursos[c].uc.codigo = ultima.codigo

\* The units of e's plan with the code that declare a prerequisite code the
\* plan does not hold.
UnidadesConPreviaAusente(e, codigo) ==
    {u \in UnidadesDelPlan(e) : u.codigo = codigo /\ ~PreviasResuelven(e, u)}

\* C21: a loaded plan can hold a unit with a prerequisite code that is in no
\* unit of the plan; for such a unit the eligibility check ends in an error
\* (neither true nor false) whatever the student's lists hold, and an
\* enrollment call for a course of that unit ends in the error and changes
\* neither the student's lists nor the roster nor the file.
C21_PreviaAusente ==
    [][/\ (/\ ultima'.op = "_puede_inscribirse"
           /\ UnidadesConPreviaAusente(ultima'.e, ultima'.codigo) # {})
            => ultima'.res = "Error"
       /\ (/\ ultima'.op \in OpsInscribirCurso
           /\ curso_valido(ultima'.obj)
           /\ UnidadesConPreviaAusente(ultima'.e,
                    cursos[ultima'.obj].uc.codigo) # {})
            => /\ ultima'.res = "Error"
               /\ UNCHANGED <<planes, est, cursos, csv_curso>>]_vars

\* C21 witness: the student of plan "B", whose lists hold no None, asked to
\* enroll in a valid course for the unit with the absent prerequisite and
\* the call ended in the error with the roster empty.
C21_Testigo ==
    /\ ultima.op = "inscribir_a_curso"
    /\ ultima.res = "Error"
    /\ curso_valido(ultima.obj)
    /\ UnidadesConPreviaAusente(ultima.e, cursos[ultima.obj].uc.codigo) # {}
    /\ ~TieneNone(est[ultima.e].ucs_aprobadas)
    /\ est[ultima.e].ucs_aprobadas # <<>>
    /\ est[ultima.e].ucs_cursando = <<>>
    /\ cursos[ultima.obj].estudiantes = <<>>

\* C22: the approved and the regular list of every student hold only units
\* of the student's plan, never None.
C22_SoloUnidadesDelPlan ==
    \A e \in Estudiantes :
        /\ Elementos(est[e].ucs_aprobadas) \subseteq UnidadesDelPlan(e)
        /\ Elementos(est[e].ucs_regulares) \subseteq UnidadesDelPlan(e)

====
